---- MODULE Spec2Model ----
(***************************************************************************)
(* Model of 01-LangGraph_Intro/01.1-graph_basics-v4.py: a two-node linear  *)
(* graph ("process" -> "finalize") run once over a state dict whose        *)
(* "messages" list is mutated in place by each node.                       *)
(*                                                                         *)
(* Python objects are modelled on a heap: `dicts` and `lists` are          *)
(* sequences indexed by object reference (1, 2, ...; 0 is None), so that   *)
(* aliasing, in-place mutation and object identity are observable.         *)
(***************************************************************************)
EXTENDS Integers, Sequences, FiniteSets, TLC

VARIABLES
    pc,             \* position of the script: init, running, returned, done, error, harness
    node,           \* the node the compiled graph is about to execute
    dicts,          \* heap of state dicts: value of d["messages"] (a list ref) or NoKey
    lists,          \* heap of list objects: the message records of each list
    initial_state,  \* the script's variable initial_state (a dict ref)
    state,          \* the state object the runner currently threads through the nodes
    result,         \* the script's variable result (a dict ref, 0 before invoke returns)
    stdout,         \* lines written to standard output
    exit_code,      \* -1 while the process is alive, then its exit status
    init0,          \* history: per dict, the value of "messages" before any node ran
    calls           \* history: one record per node-function call

vars == <<pc, node, dicts, lists, initial_state, state, result, stdout,
          exit_code, init0, calls>>

----------------------------------------------------------------------------
(* Bounds *)

MaxInit == 3        \* longest pre-existing messages sequence
MaxArg == 2         \* longest messages sequence handed to a node by the step harness
MaxCalls == 2       \* node-function calls made by the step harness

----------------------------------------------------------------------------
(* Data *)

None == 0
NoKey == 0          \* in `dicts`: the dict has no "messages" key

SeedMessage == [content |-> "seed", status |-> "seed"]

\* line 13
new_message == [content |-> "Processed message", status |-> "processed"]

\* line 22
final_message == [content |-> "Finalized message", status |-> "finalized"]

\* records a caller may have put in the list before the run
InitRecords == {SeedMessage, new_message, final_message}

RECURSIVE SeqsUpTo(_, _)
SeqsUpTo(S, n) ==
    IF n = 0 THEN {<<>>}
    ELSE LET shorter == SeqsUpTo(S, n - 1)
         IN  shorter \cup {Append(q, x) : q \in {s \in shorter : Len(s) = n - 1}, x \in S}

\* a state dict by value: whether it has the "messages" key, and the records
StateValue(has, ms) == [has |-> has, messages |-> ms]

Malformed == StateValue(FALSE, << >>)

\* the states a caller may pass in; Malformed lacks the "messages" key
StateValues(n) == {StateValue(TRUE, q) : q \in SeqsUpTo(InitRecords, n)} \cup {Malformed}

InitValues == StateValues(MaxInit)

Last(q) == q[Len(q)]

IsPrefix(p, q) == Len(p) <= Len(q) /\ SubSeq(q, 1, Len(p)) = p

\* the value of dict d on heap (ds, ls)
Snapshot(ds, ls, d) ==
    IF ds[d] = NoKey THEN Malformed ELSE StateValue(TRUE, ls[ds[d]])

----------------------------------------------------------------------------
(* Node functions: heap transformers.  The outcome records whether the     *)
(* call raised, the returned reference, and the heap after the call.       *)

Raise(ds, ls) == [raised |-> TRUE, ret |-> None, dicts |-> ds, lists |-> ls]

\* mutation: the record is built but never appended
process_node_noappend(ds, ls, s) ==
    IF ds[s] = NoKey
    THEN Raise(ds, ls)
    ELSE [raised |-> FALSE, ret |-> s, dicts |-> ds, lists |-> ls]

\* mutation: state.setdefault("messages", []).append(new_message)
process_node_setdefault(ds, ls, s) ==
    IF ds[s] = NoKey
    THEN [raised |-> FALSE, ret |-> s,
          dicts |-> [ds EXCEPT ![s] = Len(ls) + 1],
          lists |-> Append(ls, << new_message >>)]
    ELSE [raised |-> FALSE, ret |-> s, dicts |-> ds,
          lists |-> [ls EXCEPT ![ds[s]] = Append(@, new_message)]]

\* mutation: return {"messages": state["messages"] + [new_message]}
process_node_copy(ds, ls, s) ==
    IF ds[s] = NoKey
    THEN Raise(ds, ls)
    ELSE [raised |-> FALSE, ret |-> Len(ds) + 1,
          dicts |-> Append(ds, Len(ls) + 1),
          lists |-> Append(ls, Append(ls[ds[s]], new_message))]

\* def process_node(state): state["messages"].append(new_message); return state
process_node(ds, ls, s) ==
    IF ds[s] = NoKey
    THEN Raise(ds, ls)                       \* KeyError: 'messages'
    ELSE [raised |-> FALSE, ret |-> s, dicts |-> ds,
          lists |-> [ls EXCEPT ![ds[s]] = Append(@, new_message)]]

\* mutation: state["messages"].insert(0, final_message)
finalize_node_prepend(ds, ls, s) ==
    IF ds[s] = NoKey
    THEN Raise(ds, ls)
    ELSE [raised |-> FALSE, ret |-> s, dicts |-> ds,
          lists |-> [ls EXCEPT ![ds[s]] = << final_message >> \o @]]

\* mutation: state["message"].append(final_message), a key no state has
finalize_node_typo(ds, ls, s) == Raise(ds, ls)

\* mutation: state["messages"][-1] = final_message
finalize_node_overwrite(ds, ls, s) ==
    IF ds[s] = NoKey \/ Len(ls[ds[s]]) = 0
    THEN Raise(ds, ls)
    ELSE [raised |-> FALSE, ret |-> s, dicts |-> ds,
          lists |-> [ls EXCEPT ![ds[s]] = [@ EXCEPT ![Len(@)] = final_message]]]

\* mutation: the status is taken over from the record before it
finalize_node_echo(ds, ls, s) ==
    IF ds[s] = NoKey
    THEN Raise(ds, ls)
    ELSE LET old == ls[ds[s]]
              rec == IF Len(old) = 0 THEN final_message
                     ELSE [content |-> final_message.content, status |-> Last(old).status]
         IN  [raised |-> FALSE, ret |-> s, dicts |-> ds,
              lists |-> [ls EXCEPT ![ds[s]] = Append(old, rec)]]

\* def finalize_node(state): state["messages"].append(final_message); return state
finalize_node(ds, ls, s) ==
    IF ds[s] = NoKey
    THEN Raise(ds, ls)                       \* KeyError: 'messages'
    ELSE [raised |-> FALSE, ret |-> s, dicts |-> ds,
          lists |-> [ls EXCEPT ![ds[s]] = Append(@, final_message)]]

----------------------------------------------------------------------------
(* Graph wiring, lines 29-43 *)

START == "__start__"
END == "__end__"

\* graph.add_node(name, fn)
Nodes == {"process", "finalize"}

CallNode(n, ds, ls, s) ==
    IF n = "process" THEN process_node(ds, ls, s) ELSE finalize_node(ds, ls, s)

\* mutation: entry and finish points swapped, edge reversed
Edges_reversed == {<<START, "finalize">>, <<"finalize", "process">>, <<"process", END>>}

\* mutation: set_finish_point("process"), the edge to "finalize" forgotten
Edges_skip == {<<START, "process">>, <<"process", END>>}

\* add_edge("process","finalize"); set_entry_point("process"); set_finish_point("finalize")
Edges == {<<START, "process">>, <<"process", "finalize">>, <<"finalize", END>>}

Successor(n) == CHOOSE m \in Nodes \cup {END} : <<n, m>> \in Edges

\* the history record of one node-function call
CallRecord(n, ds, ls, s, out) ==
    [fn |-> n, arg |-> s, raised |-> out.raised, ret |-> out.ret,
     before |-> Snapshot(ds, ls, s),
     after |-> IF out.raised THEN Malformed ELSE Snapshot(out.dicts, out.lists, out.ret)]

----------------------------------------------------------------------------
(* Rendering of the final state, as print() does for a dict of lists of    *)
(* dicts of strings (none of the strings holds a quote).                   *)

PyReprStr(s) == "'" \o s \o "'"

PyReprMessage(m) ==
    "{'content': " \o PyReprStr(m.content) \o ", 'status': " \o PyReprStr(m.status) \o "}"

RECURSIVE PyJoin(_)
PyJoin(ms) ==
    IF Len(ms) = 0 THEN ""
    ELSE IF Len(ms) = 1 THEN PyReprMessage(ms[1])
    ELSE PyReprMessage(ms[1]) \o ", " \o PyJoin(Tail(ms))

PyReprState(v) ==
    IF v.has THEN "{'messages': [" \o PyJoin(v.messages) \o "]}" ELSE "{}"

Label == "Final state after graph execution:"

\* mutation: print(result), the label dropped
PrintLine_nolabel(v) == PyReprState(v)

\* print(a, b) writes str(a), a space, str(b) and a newline: one line
PrintLine(v) == Label \o " " \o PyReprState(v)

----------------------------------------------------------------------------
(* The script, lines 46-50, for any initial value of "messages" *)

Init ==
    \E v \in InitValues :
        /\ pc = "init"
        /\ node = START
        /\ dicts = << IF v.has THEN 1 ELSE NoKey >>
        /\ lists = IF v.has THEN << v.messages >> ELSE << >>
        /\ initial_state = 1
        /\ state = None
        /\ result = None
        /\ stdout = << >>
        /\ exit_code = -1
        /\ init0 = << v >>
        /\ calls = << >>

\* app.invoke(initial_state): the runner takes the caller's state to the entry node
Invoke ==
    /\ pc = "init"
    /\ pc' = "running"
    /\ node' = Successor(START)
    /\ state' = initial_state
    /\ UNCHANGED <<dicts, lists, initial_state, result, stdout, exit_code, init0, calls>>

\* app.invoke(initial_state) on a state without the schema's key: the runner
\* itself may refuse the input before any node runs
InvokeRaises ==
    /\ pc = "init"
    /\ dicts[initial_state] = NoKey
    /\ pc' = "error"
    /\ exit_code' = 1
    /\ UNCHANGED <<node, dicts, lists, initial_state, state, result, stdout, init0, calls>>

\* the runner executes node n on the current state; an exception is not caught
RunNode(n) ==
    /\ LET out == CallNode(n, dicts, lists, state) IN
        /\ calls' = Append(calls, CallRecord(n, dicts, lists, state, out))
        /\ dicts' = out.dicts
        /\ lists' = out.lists
        /\ IF out.raised
           THEN /\ pc' = "error"
                /\ exit_code' = 1
                /\ UNCHANGED <<node, state>>
           ELSE /\ state' = out.ret
                /\ node' = Successor(n)
                /\ UNCHANGED <<pc, exit_code>>
    /\ UNCHANGED <<initial_state, result, stdout, init0>>

\* the entry node: process_node is called on the state
RunProcess ==
    /\ pc = "running"
    /\ node = "process"
    /\ RunNode("process")

\* the node after the edge: finalize_node is called on the state
RunFinalize ==
    /\ pc = "running"
    /\ node = "finalize"
    /\ RunNode("finalize")

\* result = app.invoke(...): the run ends at END and the state is returned
Return ==
    /\ pc = "running"
    /\ node = END
    /\ result' = state
    /\ pc' = "returned"
    /\ UNCHANGED <<node, dicts, lists, initial_state, state, stdout, exit_code, init0, calls>>

\* print("Final state after graph execution:", result); the script ends
PrintResult ==
    /\ pc = "returned"
    /\ stdout' = Append(stdout, PrintLine(Snapshot(dicts, lists, result)))
    /\ pc' = "done"
    /\ exit_code' = 0
    /\ UNCHANGED <<node, dicts, lists, initial_state, state, result, init0, calls>>

Next ==
    \/ Invoke
    \/ InvokeRaises
    \/ RunProcess
    \/ RunFinalize
    \/ Return
    \/ PrintResult

Spec == Init /\ [][Next]_vars

\* the script is one synchronous thread: an enabled step is taken
FairSpec == Spec /\ WF_vars(Next)

----------------------------------------------------------------------------
(* Step harness: process_node and finalize_node called directly, in any    *)
(* order, on either of two independent state dicts of arbitrary content.   *)

StepInit ==
    \E v1 \in StateValues(MaxArg), v2 \in StateValues(MaxArg) :
        /\ pc = "harness"
        /\ node = START
        /\ dicts = << IF v1.has THEN 1 ELSE NoKey,
                      IF v2.has THEN (IF v1.has THEN 2 ELSE 1) ELSE NoKey >>
        /\ lists = (IF v1.has THEN << v1.messages >> ELSE << >>)
                      \o (IF v2.has THEN << v2.messages >> ELSE << >>)
        /\ initial_state = 1
        /\ state = None
        /\ result = None
        /\ stdout = << >>
        /\ exit_code = -1
        /\ init0 = << v1, v2 >>
        /\ calls = << >>

\* ret = n(d): the caller keeps d and receives ret (None when the call raised)
Call(n, d) ==
    /\ LET out == CallNode(n, dicts, lists, d) IN
        /\ calls' = Append(calls, CallRecord(n, dicts, lists, d, out))
        /\ dicts' = out.dicts
        /\ lists' = out.lists
        /\ state' = out.ret
    /\ UNCHANGED <<pc, node, initial_state, result, stdout, exit_code, init0>>

CallProcess ==
    /\ pc = "harness"
    /\ Len(calls) < MaxCalls
    /\ \E d \in {1, 2} : Call("process", d)

CallFinalize ==
    /\ pc = "harness"
    /\ Len(calls) < MaxCalls
    /\ \E d \in {1, 2} : Call("finalize", d)

StepNext ==
    \/ CallProcess
    \/ CallFinalize

StepSpec == StepInit /\ [][StepNext]_vars

----------------------------------------------------------------------------
(* Vocabulary of the properties *)

\* the state the caller handed to the run, by value, as it was before the run
Initial == init0[1]

\* app.invoke has returned normally
Completed == pc \in {"returned", "done"}

AT_PROCESS == pc = "running" /\ node = "process"

AT_FINALIZE == pc = "running" /\ node = "finalize"

\* the state dict the run holds at the moment
RunState == IF result # None THEN result ELSE IF state # None THEN state ELSE initial_state

RECURSIVE FnsOf(_)
FnsOf(cs) == IF Len(cs) = 0 THEN << >> ELSE << Head(cs).fn >> \o FnsOf(Tail(cs))

\* names of the node functions called so far, in call order
Fns == FnsOf(calls)

\* the calls made on dict d, in call order
CallsOn(d) == SelectSeq(calls, LAMBDA c : c.arg = d)

\* a node-function call returned in this step
Returned == Len(calls') = Len(calls) + 1 /\ ~Last(calls').raised

StartsWith(str, pre) == Len(pre) <= Len(str) /\ SubSeq(str, 1, Len(pre)) = pre

EndsWith(str, suf) ==
    Len(suf) <= Len(str) /\ SubSeq(str, Len(str) - Len(suf) + 1, Len(str)) = suf

ProcessedRecord == [content |-> "Processed message", status |-> "processed"]

FinalizedRecord == [content |-> "Finalized message", status |-> "finalized"]

----------------------------------------------------------------------------
(* C1: a complete run over N pre-existing records returns N+2 records: the *)
(* N initial ones unchanged and in order, then the processed record, then  *)
(* the finalized record.                                                   *)
C1_AppendsTwo ==
    Completed =>
        LET out == Snapshot(dicts, lists, result)
            N == Len(Initial.messages)
        IN  /\ Initial.has /\ out.has
            /\ Len(out.messages) = N + 2
            /\ SubSeq(out.messages, 1, N) = Initial.messages
            /\ out.messages[N + 1] = ProcessedRecord
            /\ out.messages[N + 2] = FinalizedRecord

C1_Witness ==
    /\ pc = "returned"
    /\ Len(Initial.messages) >= 2
    /\ Initial.messages[1] # Initial.messages[2]

(* C2: from {messages: []} the run yields exactly the two records         *)
(* [processed, finalized].                                                 *)
C2_EmptyYieldsTwo ==
    (Completed /\ Initial = StateValue(TRUE, << >>)) =>
        /\ Len(Snapshot(dicts, lists, result).messages) = 2
        /\ Snapshot(dicts, lists, result) =
               StateValue(TRUE, << ProcessedRecord, FinalizedRecord >>)

C2_Witness ==
    /\ Completed
    /\ Initial.has
    /\ Initial.messages = << >>
    /\ result # None

(* C3: among the records this run appended, every "finalized" record has a *)
(* "processed" record before it, in every reachable state; after a         *)
(* complete run the run's processed record precedes its finalized record.  *)
C3_ProcessedBeforeFinalized ==
    LET cur == Snapshot(dicts, lists, RunState)
        ms == cur.messages
        N == Len(Initial.messages)
    IN  /\ \A j \in (N + 1)..Len(ms) :
               ms[j].status = "finalized" =>
                   \E i \in (N + 1)..(j - 1) : ms[i].status = "processed"
        /\ Completed =>
               \E i, j \in (N + 1)..Len(ms) :
                   /\ i < j
                   /\ ms[i].status = "processed"
                   /\ ms[j].status = "finalized"

C3_Witness ==
    /\ pc = "done"
    /\ Len(Initial.messages) >= 1
    /\ Initial.messages[1].status = "finalized"

(* C4: the step position moves only from process to finalize, when the     *)
(* process step completes; each step is executed at most once, process     *)
(* first, and a completed run has executed each exactly once.              *)
C4_TwoStepMachine ==
    /\ [](pc = "running" => (AT_PROCESS \/ AT_FINALIZE \/ node = END))
    /\ [](IsPrefix(Fns, << "process", "finalize" >>))
    /\ [](AT_PROCESS => Fns = << >>)
    /\ [](AT_FINALIZE => Fns = << "process" >>)
    /\ [](Completed => Fns = << "process", "finalize" >>)
    /\ [][(node' # node /\ node \in Nodes /\ node' \in Nodes) =>
              (node = "process" /\ node' = "finalize")]_vars
    /\ [][(AT_PROCESS /\ Returned) => AT_FINALIZE']_vars
    /\ [][AT_FINALIZE => ~AT_PROCESS']_vars

C4_Witness ==
    /\ AT_FINALIZE
    /\ Fns = << "process" >>
    /\ ~calls[1].raised

(* C5: a run started on a state that has a messages sequence terminates:   *)
(* process completes, then finalize, then the runner returns and the       *)
(* script is done.                                                         *)
C5_RunTerminates ==
    (pc = "init" /\ Initial.has) ~>
        (pc = "done" /\ result # None /\ Fns = << "process", "finalize" >>
            /\ \A i \in DOMAIN calls : ~calls[i].raised)

C5_Witness ==
    /\ pc = "done"
    /\ exit_code = 0
    /\ Len(calls) = 2

(* C6: exactly one line is written to standard output, only after the      *)
(* finalize step has completed; it starts with the label and renders the   *)
(* final state with both records in insertion order.                       *)
C6_SingleOutputLine ==
    /\ pc # "done" => stdout = << >>
    /\ pc = "done" =>
        /\ Len(stdout) = 1
        /\ Fns = << "process", "finalize" >> /\ ~Last(calls).raised
        /\ StartsWith(stdout[1], "Final state after graph execution:")
        /\ EndsWith(stdout[1],
              "{'content': 'Processed message', 'status': 'processed'}, "
              \o "{'content': 'Finalized message', 'status': 'finalized'}]}")
        /\ Initial.messages = << >> =>
              stdout[1] = "Final state after graph execution: {'messages': ["
                 \o "{'content': 'Processed message', 'status': 'processed'}, "
                 \o "{'content': 'Finalized message', 'status': 'finalized'}]}"
        /\ Initial.messages = << SeedMessage >> =>
              stdout[1] = "Final state after graph execution: {'messages': ["
                 \o "{'content': 'seed', 'status': 'seed'}, "
                 \o "{'content': 'Processed message', 'status': 'processed'}, "
                 \o "{'content': 'Finalized message', 'status': 'finalized'}]}"

C6_Witness ==
    /\ pc = "done"
    /\ Len(stdout) = 1
    /\ Initial.messages = << SeedMessage >>

(* C7: without the messages field the run fails with an unhandled error:   *)
(* it never completes, no step runs after the failing one, nothing is      *)
(* printed, and the process ends with a non-zero exit status.              *)
C7_MalformedFails ==
    /\ [](~Initial.has =>
            /\ pc \in {"init", "running", "error"}
            /\ pc = "running" => AT_PROCESS
            /\ result = None
            /\ stdout = << >>
            /\ exit_code \in {-1, 1}
            /\ pc = "error" <=> exit_code = 1
            /\ Len(calls) <= 1
            /\ \A i \in DOMAIN calls : calls[i].raised)
    /\ [](\A i \in DOMAIN calls : calls[i].raised => i = Len(calls))
    /\ [][pc = "error" => UNCHANGED vars]_vars
    /\ (~Initial.has) ~> (pc = "error" /\ exit_code # 0)

C7_Witness ==
    /\ pc = "error"
    /\ ~Initial.has
    /\ Len(calls) = 1
    /\ calls[1].raised

(* C8: messages are append-only: over every step each list keeps its old   *)
(* records as a prefix and the state keeps its list, and every step        *)
(* execution lengthens the state's sequence by exactly one.                *)
C8_AppendOnly ==
    [][/\ \A l \in DOMAIN lists :
              l \in DOMAIN lists' /\ IsPrefix(lists[l], lists'[l])
       /\ IsPrefix(Snapshot(dicts, lists, RunState).messages,
                   Snapshot(dicts', lists', RunState').messages)
       /\ Returned =>
              /\ IsPrefix(Last(calls').before.messages, Last(calls').after.messages)
              /\ Len(Last(calls').after.messages) =
                     Len(Last(calls').before.messages) + 1
              /\ Len(Snapshot(dicts', lists', RunState').messages) =
                     Len(Snapshot(dicts, lists, RunState).messages) + 1
      ]_vars

C8_Witness ==
    /\ Len(calls) = 2
    /\ ~calls[2].raised
    /\ Len(calls[2].before.messages) >= 2

(* C9: process_node mutates the state it is given in place and returns     *)
(* that same state: the one list of the state gains the processed record,  *)
(* nothing else on the heap changes, and the caller's reference sees the   *)
(* new record while a copy taken beforehand does not.                      *)
C9_ProcessInPlace ==
    [][(Returned /\ Last(calls').fn = "process") =>
          LET c == Last(calls') IN
              /\ c.ret = c.arg
              /\ dicts' = dicts
              /\ lists' = [lists EXCEPT ![dicts[c.arg]] = Append(@, ProcessedRecord)]
              /\ Snapshot(dicts', lists', c.arg).messages =
                     Append(c.before.messages, ProcessedRecord)
              /\ c.before = Snapshot(dicts, lists, c.arg)
              /\ c.before # Snapshot(dicts', lists', c.arg)
      ]_vars

C9_Witness ==
    /\ Len(calls) >= 1
    /\ calls[1].fn = "process"
    /\ ~calls[1].raised
    /\ Len(calls[1].before.messages) >= 1
    /\ dicts[1] # NoKey /\ dicts[2] # NoKey

(* C10: the record a node function appends does not depend on the state it *)
(* receives: any two calls of the same function append the same record,    *)
(* finalize_node the finalized one also where process_node never ran, and  *)
(* equal states put through the same calls end equal.                      *)
C10_InputIndependent ==
    /\ \A i, j \in DOMAIN calls :
          (calls[i].fn = calls[j].fn /\ ~calls[i].raised /\ ~calls[j].raised) =>
              /\ Len(calls[i].after.messages) = Len(calls[i].before.messages) + 1
              /\ Last(calls[i].after.messages) = Last(calls[j].after.messages)
    /\ \A i \in DOMAIN calls :
          (calls[i].fn = "finalize" /\ ~calls[i].raised) =>
              calls[i].after.messages = Append(calls[i].before.messages, FinalizedRecord)
    /\ (init0[1] = init0[2] /\ FnsOf(CallsOn(1)) = FnsOf(CallsOn(2))) =>
          Snapshot(dicts, lists, 1) = Snapshot(dicts, lists, 2)

C10_Witness ==
    /\ Len(calls) = 2
    /\ calls[1].fn = "finalize" /\ calls[2].fn = "finalize"
    /\ ~calls[1].raised /\ ~calls[2].raised
    /\ calls[1].arg # calls[2].arg
    /\ calls[1].before # calls[2].before
    /\ \A k \in DOMAIN calls[1].before.messages :
          calls[1].before.messages[k].status # "processed"

====
